---- MODULE Spec2Model ----
(***************************************************************************)
(* OBDDataDecoder (aws-iot-fleetwise-edge, datamanagement/datadecoding):   *)
(* the decoder of OBD-II / SAE J1979 positive responses.                   *)
(*                                                                         *)
(* The decoder object holds one field, mDecoderDictionaryConstPtr.  Every  *)
(* public method is one action; the inputs of a call are drawn from small  *)
(* sets.  The decoder is used by one thread and every call runs to         *)
(* completion, so between two calls there is a caller step: the variable   *)
(* `call` holds the call that has just returned (its inputs, the caller's  *)
(* result object before (pre) and after (post) the call, the returned bool *)
(* and the payload indices the body read) until the caller has taken the   *)
(* result, and NoCall otherwise.  lastSetDictionary is the history of the  *)
(* argument of the last setDecoderDictionary.                              *)
(*                                                                         *)
(* C++ indices are 0-based: At(v, i) is v[i].  Bytes are written in        *)
(* decimal with the hexadecimal value in the comment.                      *)
(***************************************************************************)
EXTENDS Integers, Sequences, FiniteSets, TLC

VARIABLES mDecoderDictionaryConstPtr, lastSetDictionary, call

vars == <<mDecoderDictionaryConstPtr, lastSetDictionary, call>>

----------------------------------------------------------------------------
(* Bounds of the model *)

\* longest DTC body (bytes after the count byte) a payload carries
MaxDTCBody == 4
\* longest emission body (bytes after the response byte)
MaxEmissionBody == 4
\* longest expected-PID list passed to decodeEmissionPIDs
MaxPIDs == 2
\* most 5-byte records in a supported-PID payload
MaxRecords == 2
\* longest VIN (bytes after the three header bytes)
MaxVINChars == 2

----------------------------------------------------------------------------
(* Constants of the program *)

POSITIVE_ECU_RESPONSE_BASE == 64          \* 0x40
BYTE_SIZE == 8
INVALID_PID == 255                        \* 0xFF
INVALID_SID == 0
\* enum class SID
CURRENT_STATS == 1
FREEZE_FRAME == 2
STORED_DTC == 3
PENDING_DTC == 7
VEHICLE_INFO == 9
\* vehicleIdentificationNumberRequest = { SID::VEHICLE_INFO, 0x02 }
VIN_PID == 2
\* enum class DTCDomains
POWERTRAIN == 0
CHASSIS == 1
BODY == 2
NETWORK == 3

nullptr == "nullptr"

\* supportedPIDRange: the range-selector PIDs 0x00, 0x20, ..., 0xE0
supportedPIDRange == {0, 32, 64, 96, 128, 160, 192, 224}

\* The PIDs the software knows, per SID (the table behind getPID).
KnownPIDs(sid) ==
    IF sid = CURRENT_STATS THEN (0 .. 64) \ {8, 41}
    ELSE IF sid = FREEZE_FRAME THEN {1, 2}
    ELSE {}

\* getPID( sid, index ): the PID of that number, INVALID_PID when unknown
getPID(sid, index) ==
    IF index \in KnownPIDs(sid) THEN index ELSE INVALID_PID

----------------------------------------------------------------------------
(* Helpers *)

At(v, i) == IF i >= 0 /\ i < Len(v) THEN v[i + 1] ELSE 0

RECURSIVE Pow2(_)
Pow2(n) == IF n <= 0 THEN 1 ELSE 2 * Pow2(n - 1)

\* x >> n on an unsigned value
ShiftRight(x, n) == x \div Pow2(n)

\* a & b on unsigned values
RECURSIVE BitAnd(_, _)
BitAnd(a, b) ==
    IF a = 0 \/ b = 0 THEN 0
    ELSE (a % 2) * (b % 2) + 2 * BitAnd(a \div 2, b \div 2)

\* IS_BIT_SET( var, pos ): ( var ) & ( 1 << ( pos ) ), taken as a bool
IS_BIT_SET(var, pos) == BitAnd(var, Pow2(pos)) # 0

SeqsUpTo(S, n) == UNION {[1 .. k -> S] : k \in 0 .. n}

Prefixes(s) == {SubSeq(s, 1, k) : k \in 0 .. Len(s)}

\* the envelope test with && written for ||
EnvelopeInvalid_And(sid, inputData, minLen) ==
    /\ Len(inputData) < minLen
    /\ POSITIVE_ECU_RESPONSE_BASE + sid # At(inputData, 0)

\* the envelope test shared by the decode methods:
\* inputData.size() < minLen || POSITIVE_ECU_RESPONSE_BASE + toUType(sid) != inputData[0]
EnvelopeInvalid(sid, inputData, minLen) ==
    \/ Len(inputData) < minLen
    \/ POSITIVE_ECU_RESPONSE_BASE + sid # At(inputData, 0)

----------------------------------------------------------------------------
(* decodeDTCs and extractDTCString *)

\* operator<< of an int under std::hex: lowercase hexadecimal digits
HexChar(d) ==
    <<"0", "1", "2", "3", "4", "5", "6", "7", "8", "9", "a", "b", "c", "d", "e", "f">>[d + 1]

RECURSIVE StreamHex(_)
StreamHex(n) ==
    IF n < 16 THEN <<HexChar(n)>> ELSE StreamHex(n \div 16) \o <<HexChar(n % 16)>>

\* ::toupper on one character
toupper(c) ==
    CASE c = "a" -> "A" [] c = "b" -> "B" [] c = "c" -> "C"
      [] c = "d" -> "D" [] c = "e" -> "E" [] c = "f" -> "F"
      [] OTHER -> c

\* the switch on firstByte >> 6
DomainLetter(firstByte) ==
    LET d == ShiftRight(firstByte, 6) IN
    CASE d = POWERTRAIN -> <<"P">>
      [] d = CHASSIS -> <<"C">>
      [] d = BODY -> <<"B">>
      [] d = NETWORK -> <<"U">>
      [] OTHER -> <<>>

\* extractDTCString without the std::transform to upper case
extractDTCString_NoUpper(firstByte, secondByte) ==
    LET stream == DomainLetter(firstByte)
                    \o StreamHex(ShiftRight(BitAnd(firstByte, 48), 4))
                    \o StreamHex(BitAnd(firstByte, 15))
                    \o StreamHex(ShiftRight(secondByte, 4))
                    \o StreamHex(BitAnd(secondByte, 15))
    IN [ok |-> stream # <<>>, dtcString |-> stream]

\* extractDTCString: a string is the sequence of its characters
extractDTCString(firstByte, secondByte) ==
    LET stream == DomainLetter(firstByte)
                    \o StreamHex(ShiftRight(BitAnd(firstByte, 48), 4))
                    \o StreamHex(BitAnd(firstByte, 15))
                    \o StreamHex(ShiftRight(secondByte, 4))
                    \o StreamHex(BitAnd(secondByte, 15))
        dtcString == [k \in 1 .. Len(stream) |-> toupper(stream[k])]
    IN [ok |-> dtcString # <<>>, dtcString |-> dtcString]

\* the for loop of decodeDTCs, from byteIndex on
RECURSIVE DTCLoop(_, _, _)
DTCLoop(inputData, byteIndex, acc) ==
    IF ~(byteIndex < Len(inputData) - 1) THEN acc
    ELSE LET r == extractDTCString(At(inputData, byteIndex), At(inputData, byteIndex + 1))
         IN DTCLoop(inputData, byteIndex + 2,
                    [codes |-> IF r.ok THEN Append(acc.codes, r.dtcString) ELSE acc.codes,
                     reads |-> acc.reads \cup {byteIndex, byteIndex + 1}])

\* the length test accepting a frame longer than the count announces
DTCFrameCorrupt_TooShortOnly(dtcCount, inputData) == (dtcCount * 2) + 2 > Len(inputData)

\* the length test of a frame that reports DTCs
DTCFrameCorrupt(dtcCount, inputData) == (dtcCount * 2) + 2 # Len(inputData)

\* decodeDTCs( sid, inputData, info ): info is a DTCInfo [mSID, mDTCCodes]
decodeDTCs(sid, inputData, info) ==
    IF EnvelopeInvalid(sid, inputData, 2)
    THEN [ret |-> FALSE, info |-> info, reads |-> {}]
    ELSE LET info1 == [info EXCEPT !.mSID = sid]
             dtcCount == At(inputData, 1)
         IN IF dtcCount = 0
            THEN [ret |-> TRUE, info |-> info1, reads |-> {1}]
            ELSE IF DTCFrameCorrupt(dtcCount, inputData)
            THEN [ret |-> FALSE, info |-> info1, reads |-> {1}]
            ELSE LET w == DTCLoop(inputData, 2, [codes |-> info1.mDTCCodes, reads |-> {1}])
                 IN [ret |-> w.codes # <<>>,
                     info |-> [info1 EXCEPT !.mDTCCodes = w.codes],
                     reads |-> w.reads]

----------------------------------------------------------------------------
(* decodeVIN *)

\* decodeVIN( inputData, vin ): vin is the string of the bytes from index 3 on
decodeVIN(inputData, vin) ==
    IF \/ EnvelopeInvalid(VEHICLE_INFO, inputData, 3)
       \/ VIN_PID # At(inputData, 1)
    THEN [ret |-> FALSE, vin |-> vin, reads |-> {}]
    ELSE LET assigned == SubSeq(inputData, 4, Len(inputData))
         IN [ret |-> assigned # <<>>, vin |-> assigned, reads |-> 3 .. Len(inputData) - 1]

----------------------------------------------------------------------------
(* decodeSupportedPIDs *)

\* the inner loop over the bits j = 0 .. 7 of inputData[i]
RECURSIVE BitLoop(_, _, _, _, _)
BitLoop(sid, inputData, i, basePIDCount, j) ==
    IF ~(j < BYTE_SIZE) THEN <<>>
    ELSE LET index == (i - basePIDCount) * BYTE_SIZE - j
             decodedID == getPID(sid, index)
             found == IF /\ IS_BIT_SET(At(inputData, i), j)
                         /\ decodedID # INVALID_PID
                         /\ decodedID \notin supportedPIDRange
                      THEN <<decodedID>> ELSE <<>>
         IN found \o BitLoop(sid, inputData, i, basePIDCount, j + 1)

\* the outer loop over the payload bytes, from index i on
RECURSIVE SupportedLoop(_, _, _, _, _)
SupportedLoop(sid, inputData, i, basePIDCount, acc) ==
    IF ~(i < Len(inputData)) THEN acc
    ELSE IF i % 5 = 1
    THEN SupportedLoop(sid, inputData, i + 1, (basePIDCount + 1) % 256, acc)
    ELSE SupportedLoop(sid, inputData, i + 1, basePIDCount,
                       [pids |-> acc.pids \o BitLoop(sid, inputData, i, basePIDCount, 0),
                        reads |-> acc.reads \cup {i}])

\* decodeSupportedPIDs( sid, inputData, supportedPIDs )
decodeSupportedPIDs(sid, inputData, supportedPIDs) ==
    IF EnvelopeInvalid(sid, inputData, 6)
    THEN [ret |-> FALSE, supportedPIDs |-> supportedPIDs, reads |-> {}]
    ELSE LET w == SupportedLoop(sid, inputData, 1, 0, [pids |-> supportedPIDs, reads |-> {}])
             sorted == SortSeq(w.pids, LAMBDA a, b : a < b)
         IN [ret |-> sorted # <<>>, supportedPIDs |-> sorted, reads |-> w.reads]

----------------------------------------------------------------------------
(* The decoder dictionaries: PID -> [mSizeInBytes, mSignals], a signal      *)
(* formula being [mSignalID, mFirstBitPosition, mSizeInBits, mFactor,       *)
(* mOffset].  A pointer is the name of a dictionary, or nullptr.            *)

Formula(id, firstBit, sizeInBits, factor, offset) ==
    [mSignalID |-> id, mFirstBitPosition |-> firstBit, mSizeInBits |-> sizeInBits,
     mFactor |-> factor, mOffset |-> offset]

PIDFormat(sizeInBytes, signals) == [mSizeInBytes |-> sizeInBytes, mSignals |-> signals]

\* two sub-byte signals on PID 0x03, one byte-wide signal on PID 0x05; no PID 0x06
DictA ==
    (3 :> PIDFormat(2, <<Formula("A", 0, 4, 1, 0), Formula("B", 4, 4, 1, 0)>>))
    @@ (5 :> PIDFormat(1, <<Formula("T", 0, 8, 1, -40)>>))

\* the signal id "A" on two formulas of PID 0x03 and on PID 0x05; PID 0x06 without signals
DictB ==
    (3 :> PIDFormat(2, <<Formula("A", 0, 4, 1, 0), Formula("A", 4, 4, 1, 0)>>))
    @@ (5 :> PIDFormat(1, <<Formula("A", 0, 8, 2, 0)>>))
    @@ (6 :> PIDFormat(1, <<>>))

\* formulas at and beyond the edges of isFormulaValid; PID 0x06 without data bytes
DictC ==
    (3 :> PIDFormat(2, <<Formula("RPM", 0, 16, 2, 1), Formula("X", 4, 8, 1, 0),
                         Formula("Y", 6, 4, 1, 0), Formula("Z", 8, 16, 1, 0),
                         Formula("W", 16, 0, 1, 0), Formula("V", 0, 12, 1, 0),
                         Formula("N", 12, 4, 1, 0), Formula("L", 8, 8, 1, 0)>>))
    @@ (5 :> PIDFormat(1, <<Formula("E", 0, 0, 1, 7), Formula("Q", 8, 8, 1, 0),
                            Formula("M", 7, 1, 1, 0)>>))
    @@ (6 :> PIDFormat(0, <<Formula("O", 0, 0, 1, 0)>>))

DictionaryPtrs == {"DictA", "DictB", "DictC"}

\* *ptr
Deref(ptr) ==
    CASE ptr = "DictA" -> DictA
      [] ptr = "DictB" -> DictB
      [] OTHER -> DictC

EmptyMap == [k \in {} |-> 0]

\* std::map::emplace: inserts only when the key is absent
emplace(map, key, value) ==
    IF key \in DOMAIN map THEN map ELSE map @@ (key :> value)

----------------------------------------------------------------------------
(* isPIDResponseValid, isFormulaValid, decodeEmissionPIDs *)

\* the validator without the final test that the walk ends on the payload length
RECURSIVE PIDResponseLoop_NoLengthCheck(_, _, _, _, _, _)
PIDResponseLoop_NoLengthCheck(dict, pids, ecuResponse, k, responseByteIndex, reads) ==
    IF k > Len(pids)
    THEN [ret |-> TRUE, reads |-> reads, index |-> responseByteIndex]
    ELSE LET pid == pids[k] IN
         IF responseByteIndex >= Len(ecuResponse)
         THEN [ret |-> FALSE, reads |-> reads, index |-> responseByteIndex]
         ELSE LET read == Append(reads, responseByteIndex) IN
              IF At(ecuResponse, responseByteIndex) # pid
              THEN [ret |-> FALSE, reads |-> read, index |-> responseByteIndex]
              ELSE IF pid \in DOMAIN dict
              THEN PIDResponseLoop_NoLengthCheck(dict, pids, ecuResponse, k + 1,
                       responseByteIndex + (dict[pid].mSizeInBytes + 1), read)
              ELSE [ret |-> FALSE, reads |-> read, index |-> responseByteIndex]

\* the validator comparing the PID byte without the test that the index is
\* inside the response
RECURSIVE PIDResponseLoop_NoBoundsCheck(_, _, _, _, _, _)
PIDResponseLoop_NoBoundsCheck(dict, pids, ecuResponse, k, responseByteIndex, reads) ==
    IF k > Len(pids)
    THEN [ret |-> responseByteIndex = Len(ecuResponse), reads |-> reads,
          index |-> responseByteIndex]
    ELSE LET pid == pids[k]
             read == Append(reads, responseByteIndex)
         IN IF At(ecuResponse, responseByteIndex) # pid
            THEN [ret |-> FALSE, reads |-> read, index |-> responseByteIndex]
            ELSE IF pid \in DOMAIN dict
            THEN PIDResponseLoop_NoBoundsCheck(dict, pids, ecuResponse, k + 1,
                     responseByteIndex + (dict[pid].mSizeInBytes + 1), read)
            ELSE [ret |-> FALSE, reads |-> read, index |-> responseByteIndex]

\* isPIDResponseValid( pids, ecuResponse ), the loop from the k-th PID on and
\* the final test; reads are the indices of ecuResponse read so far, in order
\* (the || of line 309 reads ecuResponse[responseByteIndex] only when the
\* index is below the size)
RECURSIVE PIDResponseLoop(_, _, _, _, _, _)
PIDResponseLoop(dict, pids, ecuResponse, k, responseByteIndex, reads) ==
    IF k > Len(pids)
    THEN [ret |-> responseByteIndex = Len(ecuResponse), reads |-> reads,
          index |-> responseByteIndex]
    ELSE LET pid == pids[k] IN
         IF responseByteIndex >= Len(ecuResponse)
         THEN [ret |-> FALSE, reads |-> reads, index |-> responseByteIndex]
         ELSE LET read == Append(reads, responseByteIndex) IN
              IF At(ecuResponse, responseByteIndex) # pid
              THEN [ret |-> FALSE, reads |-> read, index |-> responseByteIndex]
              ELSE IF pid \in DOMAIN dict
              THEN PIDResponseLoop(dict, pids, ecuResponse, k + 1,
                       responseByteIndex + (dict[pid].mSizeInBytes + 1), read)
              ELSE [ret |-> FALSE, reads |-> read, index |-> responseByteIndex]

\* isPIDResponseValid( pids, ecuResponse ): the returned bool, with the reads
isPIDResponseValid(dict, pids, ecuResponse) ==
    PIDResponseLoop(dict, pids, ecuResponse, 1, 1, <<>>)

\* the validator without the test of the last bit position
isFormulaValid_NoLastBit(dict, pid, formula) ==
    /\ pid \in DOMAIN dict
    /\ formula.mFirstBitPosition < dict[pid].mSizeInBytes * BYTE_SIZE
    /\ \/ formula.mSizeInBits < 8
       \/ /\ BitAnd(formula.mSizeInBits, 7) = 0
          /\ BitAnd(formula.mFirstBitPosition, 7) = 0

\* isFormulaValid( pid, formula )
isFormulaValid(dict, pid, formula) ==
    /\ pid \in DOMAIN dict
    /\ formula.mFirstBitPosition < dict[pid].mSizeInBytes * BYTE_SIZE
    /\ formula.mSizeInBits + formula.mFirstBitPosition <= dict[pid].mSizeInBytes * BYTE_SIZE
    /\ \/ formula.mSizeInBits < 8
       \/ /\ BitAnd(formula.mSizeInBits, 7) = 0
          /\ BitAnd(formula.mFirstBitPosition, 7) = 0

\* the while loop that concatenates numOfBytes bytes from byteIdx on
RECURSIVE ConcatBytes(_, _, _, _)
ConcatBytes(inputData, byteIdx, numOfBytes, acc) ==
    IF numOfBytes = 0 THEN acc
    ELSE ConcatBytes(inputData, byteIdx + 1, numOfBytes - 1,
                     [raw |-> acc.raw * Pow2(BYTE_SIZE) + At(inputData, byteIdx),
                      reads |-> acc.reads \cup {byteIdx}])

\* the extraction with the mask applied to the unshifted byte
ExtractRaw_NoShift(inputData, byteCounter, formula) ==
    LET byteIdx == byteCounter + (formula.mFirstBitPosition \div BYTE_SIZE) IN
    IF formula.mSizeInBits < BYTE_SIZE
    THEN [raw |-> BitAnd(At(inputData, byteIdx),
                         ShiftRight(255, BYTE_SIZE - formula.mSizeInBits)),
          reads |-> {byteIdx}]
    ELSE ConcatBytes(inputData, byteIdx, formula.mSizeInBits \div BYTE_SIZE,
                     [raw |-> 0, reads |-> {}])

\* the raw value of one formula of the record whose data start at byteCounter
ExtractRaw(inputData, byteCounter, formula) ==
    LET byteIdx == byteCounter + (formula.mFirstBitPosition \div BYTE_SIZE) IN
    IF formula.mSizeInBits < BYTE_SIZE
    THEN [raw |-> BitAnd(ShiftRight(At(inputData, byteIdx),
                                    formula.mFirstBitPosition % BYTE_SIZE),
                         ShiftRight(255, BYTE_SIZE - formula.mSizeInBits)),
          reads |-> {byteIdx}]
    ELSE ConcatBytes(inputData, byteIdx, formula.mSizeInBits \div BYTE_SIZE,
                     [raw |-> 0, reads |-> {}])

\* the for loop over the formulas of one PID, from the k-th formula on
RECURSIVE FormulaLoop(_, _, _, _, _, _, _)
FormulaLoop(dict, pid, formulas, k, inputData, byteCounter, acc) ==
    IF k > Len(formulas) THEN acc
    ELSE LET formula == formulas[k] IN
         IF isFormulaValid(dict, pid, formula)
         THEN LET x == ExtractRaw(inputData, byteCounter, formula)
                  window == [lo |-> byteCounter,
                             hi |-> byteCounter + dict[pid].mSizeInBytes]
              IN FormulaLoop(dict, pid, formulas, k + 1, inputData, byteCounter,
                     [acc EXCEPT
                        !.values = emplace(@, formula.mSignalID,
                                           x.raw * formula.mFactor + formula.mOffset),
                        !.reads = @ \cup {[idx |-> i, window |-> window] : i \in x.reads}])
         ELSE FormulaLoop(dict, pid, formulas, k + 1, inputData, byteCounter, acc)

\* the while loop taking every record for one byte longer than the dictionary says
RECURSIVE EmissionWalk_SkipsOneMore(_, _, _, _)
EmissionWalk_SkipsOneMore(dict, inputData, byteCounter, acc) ==
    IF ~(byteCounter < Len(inputData)) THEN [acc EXCEPT !.cursor = byteCounter]
    ELSE LET pid == At(inputData, byteCounter)
             dataStart == byteCounter + 1
             visited == [acc EXCEPT !.pidAt = Append(@, byteCounter)]
         IN IF pid \in DOMAIN dict
            THEN LET expectedResponseLength == dict[pid].mSizeInBytes + 1
                     formulas == dict[pid].mSignals
                 IN IF dataStart + expectedResponseLength <= Len(inputData)
                    THEN EmissionWalk_SkipsOneMore(dict, inputData,
                             dataStart + expectedResponseLength,
                             FormulaLoop(dict, pid, formulas, 1, inputData, dataStart, visited))
                    ELSE EmissionWalk_SkipsOneMore(dict, inputData,
                             dataStart + expectedResponseLength,
                             [visited EXCEPT !.partial = TRUE])
            ELSE [visited EXCEPT !.aborted = TRUE, !.cursor = dataStart]

\* the while loop of decodeEmissionPIDs, from byteCounter on.  acc holds the
\* map, the reads of the extraction, the positions of the PID bytes visited,
\* whether a record was partial and whether the walk met an unknown PID.
RECURSIVE EmissionWalk(_, _, _, _)
EmissionWalk(dict, inputData, byteCounter, acc) ==
    IF ~(byteCounter < Len(inputData)) THEN [acc EXCEPT !.cursor = byteCounter]
    ELSE LET pid == At(inputData, byteCounter)
             dataStart == byteCounter + 1
             visited == [acc EXCEPT !.pidAt = Append(@, byteCounter)]
         IN IF pid \in DOMAIN dict
            THEN LET expectedResponseLength == dict[pid].mSizeInBytes
                     formulas == dict[pid].mSignals
                 IN IF dataStart + expectedResponseLength <= Len(inputData)
                    THEN EmissionWalk(dict, inputData, dataStart + expectedResponseLength,
                             FormulaLoop(dict, pid, formulas, 1, inputData, dataStart, visited))
                    ELSE EmissionWalk(dict, inputData, dataStart + expectedResponseLength,
                             [visited EXCEPT !.partial = TRUE])
            ELSE [visited EXCEPT !.aborted = TRUE, !.cursor = dataStart]

NoWalk == [pidAt |-> <<>>, partial |-> FALSE, aborted |-> FALSE, cursor |-> 0]

\* the validator was not called
NoValidation == [called |-> FALSE, ret |-> FALSE, reads |-> <<>>, index |-> 0]

\* decodeEmissionPIDs( sid, pids, inputData, info ) of the decoder whose
\* dictionary pointer is ptr; info is an EmissionInfo [mSID, mPIDsToValues]
decodeEmissionPIDs(ptr, sid, pids, inputData, info) ==
    IF EnvelopeInvalid(sid, inputData, 3)
    THEN [ret |-> FALSE, info |-> info, reads |-> {}, walk |-> NoWalk, validated |-> FALSE,
          validator |-> NoValidation]
    ELSE IF ptr = nullptr
    THEN [ret |-> FALSE, info |-> info, reads |-> {}, walk |-> NoWalk, validated |-> FALSE,
          validator |-> NoValidation]
    ELSE LET v == isPIDResponseValid(Deref(ptr), pids, inputData)
             validator == [called |-> TRUE, ret |-> v.ret, reads |-> v.reads,
                           index |-> v.index]
         IN IF v.ret = FALSE
            THEN [ret |-> FALSE, info |-> info, reads |-> {}, walk |-> NoWalk,
                  validated |-> FALSE, validator |-> validator]
            ELSE LET w == EmissionWalk(Deref(ptr), inputData, 1,
                              [values |-> info.mPIDsToValues, reads |-> {}, pidAt |-> <<>>,
                               partial |-> FALSE, aborted |-> FALSE, cursor |-> 1])
                 IN [ret |-> w.values # EmptyMap,
                     info |-> [mSID |-> sid, mPIDsToValues |-> w.values],
                     reads |-> w.reads,
                     walk |-> [pidAt |-> w.pidAt, partial |-> w.partial,
                               aborted |-> w.aborted, cursor |-> w.cursor],
                     validated |-> TRUE,
                     validator |-> validator]

----------------------------------------------------------------------------
(* The inputs of the calls *)

\* 0x01, 0x23, 0x86, 0x04, 0x4A, 0xCD: a first byte of every DTC domain
DTCBytes == {1, 35, 134, 4, 74, 205}
\* 0x43 0x47: the positive responses of SID 0x03 and SID 0x07
DTCPayloads ==
    {<<>>, <<67>>, <<71>>}
    \cup {<<head, count>> \o body :
            head \in {67, 71}, count \in 0 .. 2, body \in SeqsUpTo(DTCBytes, MaxDTCBody)}
DTCSIDs == {STORED_DTC, PENDING_DTC}
DTCInfos ==
    {[mSID |-> INVALID_SID, mDTCCodes |-> <<>>],
     [mSID |-> PENDING_DTC, mDTCCodes |-> << <<"P", "0", "0", "0", "1">> >>]}

\* 0x49 0x02 <count> 'W' '1' ...
VINPayloads ==
    UNION {Prefixes(<<head, pid, 1>> \o chars) :
             head \in {73, 65}, pid \in {2, 4}, chars \in SeqsUpTo({87, 49}, MaxVINChars)}
VINs == {<<>>, <<86>>}

\* the 5-byte records [range selector, b0, b1, b2, b3]
RecordBitmaps == {<<0, 0, 0, 0>>, <<128, 24, 0, 19>>, <<1, 0, 0, 1>>}
Records == {<<selector>> \o bitmap : selector \in {0, 32}, bitmap \in RecordBitmaps}

RECURSIVE Flatten(_)
Flatten(ss) == IF ss = <<>> THEN <<>> ELSE Head(ss) \o Flatten(Tail(ss))

SupportedPayloads ==
    UNION {Prefixes(<<head>> \o Flatten(records)) :
             head \in {65, 66}, records \in SeqsUpTo(Records, MaxRecords)}
SupportedSIDs == {CURRENT_STATS, FREEZE_FRAME}
SupportedLists == {<<>>, <<12>>}

\* the PIDs 0x03, 0x05, 0x06 and the data byte 0xAB
EmissionPIDSet == {3, 5, 6}
EmissionBytes == EmissionPIDSet \cup {171}
EmissionPayloads == {<<>>} \cup {<<65>> \o body : body \in SeqsUpTo(EmissionBytes, MaxEmissionBody)}
EmissionSIDs == {CURRENT_STATS, FREEZE_FRAME}
EmissionPIDLists == SeqsUpTo(EmissionPIDSet, MaxPIDs)
EmissionInfos ==
    {[mSID |-> INVALID_SID, mPIDsToValues |-> EmptyMap],
     [mSID |-> FREEZE_FRAME, mPIDsToValues |-> ("A" :> 99)]}

----------------------------------------------------------------------------
(* The decoder as a state machine *)

NoCall ==
    [op |-> "none", sid |-> INVALID_SID, pids |-> <<>>, inputData |-> <<>>,
     dictionary |-> nullptr, pre |-> <<>>, post |-> <<>>, ret |-> FALSE, reads |-> {},
     walk |-> NoWalk, validated |-> FALSE, validator |-> NoValidation]

Call(op, sid, pids, inputData, pre, r, post) ==
    [op |-> op, sid |-> sid, pids |-> pids, inputData |-> inputData,
     dictionary |-> mDecoderDictionaryConstPtr,
     pre |-> pre, post |-> post, ret |-> r.ret, reads |-> r.reads,
     walk |-> IF op = "decodeEmissionPIDs" THEN r.walk ELSE NoWalk,
     validated |-> IF op = "decodeEmissionPIDs" THEN r.validated ELSE FALSE,
     validator |-> IF op = "decodeEmissionPIDs" THEN r.validator ELSE NoValidation]

\* OBDDataDecoder::OBDDataDecoder(): the dictionary pointer is null
Init ==
    /\ mDecoderDictionaryConstPtr = nullptr
    /\ lastSetDictionary = nullptr
    /\ call = NoCall

\* a setter that keeps a dictionary once one is set
setDecoderDictionary_KeepFirst ==
    /\ call = NoCall
    /\ \E dictionary \in DictionaryPtrs \cup {nullptr} :
          /\ mDecoderDictionaryConstPtr' =
                IF mDecoderDictionaryConstPtr = nullptr THEN dictionary
                ELSE mDecoderDictionaryConstPtr
          /\ lastSetDictionary' = dictionary
    /\ UNCHANGED call

\* decoder.setDecoderDictionary( dictionary ), for any dictionary pointer
setDecoderDictionary ==
    /\ call = NoCall
    /\ \E dictionary \in DictionaryPtrs \cup {nullptr} :
          /\ mDecoderDictionaryConstPtr' = dictionary
          /\ lastSetDictionary' = dictionary
    /\ UNCHANGED call

\* decoder.decodeSupportedPIDs( sid, inputData, supportedPIDs )
DecodeSupportedPIDs ==
    /\ call = NoCall
    /\ \E sid \in SupportedSIDs, inputData \in SupportedPayloads,
          supportedPIDs \in SupportedLists :
          LET r == decodeSupportedPIDs(sid, inputData, supportedPIDs) IN
          call' = Call("decodeSupportedPIDs", sid, <<>>, inputData, supportedPIDs, r,
                       r.supportedPIDs)
    /\ UNCHANGED <<mDecoderDictionaryConstPtr, lastSetDictionary>>

\* decoder.decodeEmissionPIDs( sid, pids, inputData, info )
DecodeEmissionPIDs ==
    /\ call = NoCall
    /\ \E sid \in EmissionSIDs, pids \in EmissionPIDLists, inputData \in EmissionPayloads,
          info \in EmissionInfos :
          LET r == decodeEmissionPIDs(mDecoderDictionaryConstPtr, sid, pids, inputData, info)
          IN call' = Call("decodeEmissionPIDs", sid, pids, inputData, info, r, r.info)
    /\ UNCHANGED <<mDecoderDictionaryConstPtr, lastSetDictionary>>

\* decoder.decodeDTCs( sid, inputData, info )
DecodeDTCs ==
    /\ call = NoCall
    /\ \E sid \in DTCSIDs, inputData \in DTCPayloads, info \in DTCInfos :
          LET r == decodeDTCs(sid, inputData, info) IN
          call' = Call("decodeDTCs", sid, <<>>, inputData, info, r, r.info)
    /\ UNCHANGED <<mDecoderDictionaryConstPtr, lastSetDictionary>>

\* decoder.decodeVIN( inputData, vin )
DecodeVIN ==
    /\ call = NoCall
    /\ \E inputData \in VINPayloads, vin \in VINs :
          LET r == decodeVIN(inputData, vin) IN
          call' = Call("decodeVIN", VEHICLE_INFO, <<>>, inputData, vin, r, r.vin)
    /\ UNCHANGED <<mDecoderDictionaryConstPtr, lastSetDictionary>>

\* the caller takes the returned bool and the result object; the decoder is
\* between two calls again
TakeResult ==
    /\ call # NoCall
    /\ call' = NoCall
    /\ UNCHANGED <<mDecoderDictionaryConstPtr, lastSetDictionary>>

Next ==
    \/ setDecoderDictionary
    \/ DecodeSupportedPIDs
    \/ DecodeEmissionPIDs
    \/ DecodeDTCs
    \/ DecodeVIN
    \/ TakeResult

Spec == Init /\ [][Next]_vars

----------------------------------------------------------------------------
(* The claims *)

IsDecode == call.op \in {"decodeSupportedPIDs", "decodeEmissionPIDs", "decodeDTCs", "decodeVIN"}

\* the payload of the call fails the envelope gate of its service, as the
\* specification states the gate
GateFails ==
    LET data == call.inputData
        n == Len(data)
    IN CASE call.op = "decodeSupportedPIDs" -> n < 6 \/ data[1] # 64 + call.sid
         [] call.op = "decodeEmissionPIDs" -> n < 3 \/ data[1] # 64 + call.sid
         [] call.op = "decodeDTCs" -> n < 2 \/ data[1] # 64 + call.sid
         [] call.op = "decodeVIN" -> n < 3 \/ data[1] # 73 \/ data[2] # 2
         [] OTHER -> FALSE

\* C1: a decode call whose payload is shorter than the service minimum (6, 3,
\* 2, 3 bytes) or does not start with 0x40 + sid (0x49 0x02 for the VIN)
\* returns failure, reads no byte of the body and leaves the result object as
\* it was.
C1_EnvelopeGate ==
    (IsDecode /\ GateFails) =>
        /\ call.ret = FALSE
        /\ call.reads = {}
        /\ call.post = call.pre

\* a supported-PID payload of full length whose first byte answers another SID
C1_Witness ==
    /\ call.op = "decodeSupportedPIDs"
    /\ call.sid = FREEZE_FRAME
    /\ call.inputData = <<65, 0, 128, 24, 0, 19>>
    /\ call.ret = FALSE

IsDTCResponse ==
    /\ call.op = "decodeDTCs"
    /\ call.sid = STORED_DTC
    /\ Len(call.inputData) >= 2
    /\ call.inputData[1] = 67

\* C2 as stated: for SID 0x03, a payload of at least 2 bytes starting with 0x43
\* decodes successfully exactly when len = 2 + 2 * data[1], for every count.
C2_Original ==
    IsDTCResponse =>
        (call.ret <=> Len(call.inputData) = 2 + 2 * call.inputData[2])

\* C2 amended: the length law binds only a count above zero; a count byte of 0
\* succeeds whatever the length.
C2_DTCLengthLaw ==
    IsDTCResponse =>
        (call.ret <=> \/ call.inputData[2] = 0
                      \/ Len(call.inputData) = 2 + 2 * call.inputData[2])

\* a count of 0 followed by two more bytes, accepted
C2_Witness ==
    /\ IsDTCResponse
    /\ call.inputData = <<67, 0, 1, 35>>
    /\ call.ret = TRUE

ClaimHex == <<"0", "1", "2", "3", "4", "5", "6", "7", "8", "9", "A", "B", "C", "D", "E", "F">>

\* the five characters the specification gives for the pair b0, b1
ClaimDTC(b0, b1) ==
    << <<"P", "C", "B", "U">>[(b0 \div 64) + 1],
       ClaimHex[((b0 \div 16) % 4) + 1],
       ClaimHex[(b0 % 16) + 1],
       ClaimHex[(b1 \div 16) + 1],
       ClaimHex[(b1 % 16) + 1] >>

\* [PCBU][0-3][0-9A-F]{3}
MatchesDTCPattern(str) ==
    /\ Len(str) = 5
    /\ str[1] \in {"P", "C", "B", "U"}
    /\ str[2] \in {"0", "1", "2", "3"}
    /\ \A k \in 3 .. 5 : str[k] \in {ClaimHex[d] : d \in 1 .. 16}

\* C3: a successful decodeDTCs with count = data[1] > 0 appends to the DTC
\* list exactly count strings in payload order (the list holds exactly these
\* when it was empty at the call), the i-th being the domain letter of the
\* top two bits of data[2+2i] followed by the four hexadecimal digits, upper
\* case.
C3_DTCFormatting ==
    (call.op = "decodeDTCs" /\ call.ret /\ At(call.inputData, 1) > 0) =>
        LET count == At(call.inputData, 1)
            expected == [i \in 1 .. count |->
                           ClaimDTC(At(call.inputData, 2 * i), At(call.inputData, 2 * i + 1))]
        IN /\ call.post.mDTCCodes = call.pre.mDTCCodes \o expected
           /\ \A i \in 1 .. count : MatchesDTCPattern(expected[i])

\* 0x43 0x02 0x01 0x23 0x86 0x04 into an empty list gives P0123, B0604
C3_Witness ==
    /\ call.op = "decodeDTCs"
    /\ call.ret
    /\ call.inputData = <<67, 2, 1, 35, 134, 4>>
    /\ call.pre.mDTCCodes = <<>>
    /\ call.post.mDTCCodes = << <<"P", "0", "1", "2", "3">>, <<"B", "0", "6", "0", "4">> >>

----------------------------------------------------------------------------
(* Emission payloads as the specification describes them *)

\* the index of the PID byte of the k-th record of a payload assembled for pids
RECURSIVE RecordStart(_, _, _)
RecordStart(dict, pids, k) ==
    IF k <= 1 THEN 1
    ELSE RecordStart(dict, pids, k - 1) + 1 + dict[pids[k - 1]].mSizeInBytes

\* data is [0x41, (pid, data bytes)*] for the PID sequence pids, each record
\* carrying dictionary[pid].size_in_bytes data bytes
IsAssembled(dict, pids, data) ==
    /\ Len(data) >= 1
    /\ data[1] = 65
    /\ \A k \in 1 .. Len(pids) : pids[k] \in DOMAIN dict
    /\ Len(data) = RecordStart(dict, pids, Len(pids) + 1)
    /\ \A k \in 1 .. Len(pids) : At(data, RecordStart(dict, pids, k)) = pids[k]

RECURSIVE BigEndian(_, _, _)
BigEndian(data, first, n) ==
    IF n = 0 THEN 0 ELSE BigEndian(data, first, n - 1) * 256 + At(data, first + n - 1)

\* the raw value the specification gives for formula f of a record whose data
\* start at dataStart
ClaimRaw(data, dataStart, f) ==
    IF f.mSizeInBits < 8
    THEN (At(data, dataStart + f.mFirstBitPosition \div 8) \div Pow2(f.mFirstBitPosition % 8))
            % Pow2(f.mSizeInBits)
    ELSE BigEndian(data, dataStart + f.mFirstBitPosition \div 8, f.mSizeInBits \div 8)

\* the formula validator as the specification states it
ClaimFormulaValid(sizeInBytes, f) ==
    /\ f.mFirstBitPosition < 8 * sizeInBytes
    /\ f.mFirstBitPosition + f.mSizeInBits <= 8 * sizeInBytes
    /\ f.mSizeInBits >= 8 => (f.mSizeInBits % 8 = 0 /\ f.mFirstBitPosition % 8 = 0)

\* the entries of the records of pids, in payload order and, within a record,
\* in the dictionary's order
ClaimEntries(dict, pids, data) ==
    Flatten([k \in 1 .. Len(pids) |->
               LET fmt == dict[pids[k]]
                   dataStart == RecordStart(dict, pids, k) + 1
               IN [j \in 1 .. Len(fmt.mSignals) |->
                     LET f == fmt.mSignals[j] IN
                     [id |-> f.mSignalID,
                      value |-> ClaimRaw(data, dataStart, f) * f.mFactor + f.mOffset,
                      valid |-> ClaimFormulaValid(fmt.mSizeInBytes, f)]]])

Range(seq) == {seq[k] : k \in 1 .. Len(seq)}

\* an emission call of SID 0x01 on an assembled payload, with the expected
\* PID list its PID sequence and an empty result map
IsRoundTrip ==
    /\ call.op = "decodeEmissionPIDs"
    /\ call.sid = CURRENT_STATS
    /\ call.dictionary # nullptr
    /\ IsAssembled(Deref(call.dictionary), call.pids, call.inputData)
    /\ call.pre.mPIDsToValues = EmptyMap

RoundTripEntries == ClaimEntries(Deref(call.dictionary), call.pids, call.inputData)

\* C4 as stated: the map holds exactly one entry per signal formula of the
\* PIDs in the payload, each with value raw * factor + offset.
C4_Original ==
    IsRoundTrip =>
        /\ Cardinality(DOMAIN call.post.mPIDsToValues) = Len(RoundTripEntries)
        /\ \A e \in Range(RoundTripEntries) :
              /\ e.id \in DOMAIN call.post.mPIDsToValues
              /\ call.post.mPIDsToValues[e.id] = e.value

\* C4 amended: the map holds one entry per signal_id of the formulas that pass
\* isFormulaValid, each with the value raw * factor + offset of a valid
\* formula of that signal_id, and the call succeeds iff there is such an entry.
C4_EmissionRoundTrip ==
    IsRoundTrip =>
        LET valid == {e \in Range(RoundTripEntries) : e.valid}
            map == call.post.mPIDsToValues
        IN /\ DOMAIN map = {e.id : e \in valid}
           /\ \A id \in DOMAIN map : \E e \in valid : e.id = id /\ map[id] = e.value
           /\ call.ret <=> valid # {}

\* 0x41 0x03 0xAB 0x05 under DictA: the low nibble of 0xAB is A, the high one B
C4_Witness ==
    /\ IsRoundTrip
    /\ call.dictionary = "DictA"
    /\ call.inputData = <<65, 3, 171, 5>>
    /\ call.pids = <<3>>
    /\ call.ret
    /\ call.post.mPIDsToValues = ("A" :> 11) @@ ("B" :> 10)

\* the records of dictionary-known PIDs at the head of the payload
RECURSIVE KnownPrefix(_, _, _)
KnownPrefix(dict, data, pos) ==
    IF /\ pos < Len(data)
       /\ At(data, pos) \in DOMAIN dict
       /\ pos + 1 + dict[At(data, pos)].mSizeInBytes <= Len(data)
    THEN <<At(data, pos)>> \o KnownPrefix(dict, data, pos + 1 + dict[At(data, pos)].mSizeInBytes)
    ELSE <<>>

\* an emission call on a payload in which one or more records of known PIDs
\* are followed by a PID byte the dictionary lacks
IsUnknownAfterKnown ==
    /\ call.op = "decodeEmissionPIDs"
    /\ call.sid = CURRENT_STATS
    /\ call.dictionary # nullptr
    /\ Len(call.inputData) >= 3
    /\ call.inputData[1] = 65
    /\ LET dict == Deref(call.dictionary)
           known == KnownPrefix(dict, call.inputData, 1)
           next == RecordStart(dict, known, Len(known) + 1)
       IN /\ Len(known) >= 1
          /\ next < Len(call.inputData)
          /\ At(call.inputData, next) \notin DOMAIN dict

\* C5 as stated: the call yields exactly the signals of the records that
\* precede the unknown PID (here with the known PIDs as the expected list).
C5_Original ==
    (IsUnknownAfterKnown /\ call.pre.mPIDsToValues = EmptyMap
        /\ call.pids = KnownPrefix(Deref(call.dictionary), call.inputData, 1)) =>
        LET dict == Deref(call.dictionary)
            known == KnownPrefix(dict, call.inputData, 1)
            valid == {e \in Range(ClaimEntries(dict, known, call.inputData)) : e.valid}
        IN DOMAIN call.post.mPIDsToValues = {e.id : e \in valid}

\* C5 amended: the call fails, reads no data byte and leaves the result object
\* as it was, so no signal of any PID of the payload appears.
C5_UnknownPIDRejected ==
    IsUnknownAfterKnown =>
        /\ call.ret = FALSE
        /\ call.reads = {}
        /\ call.post = call.pre

\* 0x41 0x05 0xAB 0x06 0xAB with a dictionary that has 0x05 and lacks 0x06
C5_Witness ==
    /\ IsUnknownAfterKnown
    /\ call.dictionary = "DictA"
    /\ call.inputData = <<65, 5, 171, 6, 171>>
    /\ call.pids = <<5, 6>>
    /\ call.ret = FALSE

----------------------------------------------------------------------------
(* Supported PIDs, result objects, collisions and the dictionary pointer *)

\* a supported-PID call on a valid envelope followed by whole 5-byte records,
\* into an empty list
IsRecordPayload ==
    /\ call.op = "decodeSupportedPIDs"
    /\ Len(call.inputData) >= 6
    /\ call.inputData[1] = 64 + call.sid
    /\ (Len(call.inputData) - 1) % 5 = 0
    /\ call.pre = <<>>

\* the PIDs the records advertise, each record counted from the range
\* selector it carries
ClaimSupportedSet ==
    LET data == call.inputData
        advertised ==
            {At(data, 5 * r + 1) + i * 8 + (7 - k) + 1 :
                <<r, i, k>> \in {t \in (0 .. (Len(data) - 1) \div 5 - 1) \X (0 .. 3) \X (0 .. 7) :
                                   (At(data, 5 * t[1] + 2 + t[2]) \div Pow2(t[3])) % 2 = 1}}
    IN (advertised \cap KnownPIDs(call.sid)) \ supportedPIDRange

IsAscending(seq) == \A k \in 1 .. Len(seq) - 1 : seq[k] < seq[k + 1]

\* C6: the list returned is the ascending, duplicate-free list of exactly the
\* PIDs range_selector + i*8 + (7-k) + 1 of the bits set, known to the software
\* and no range selector, and the call succeeds iff the list is non-empty, for
\* any range selector carried in a record.
C6_SupportedPIDs ==
    IsRecordPayload =>
        /\ IsAscending(call.post)
        /\ Range(call.post) = ClaimSupportedSet
        /\ call.ret <=> call.post # <<>>

IsFailedInfoCall ==
    /\ call.op \in {"decodeDTCs", "decodeEmissionPIDs"}
    /\ call.ret = FALSE

\* C7: a decodeDTCs or decodeEmissionPIDs call that returns failure leaves the
\* caller's result object (SID field, DTC list or signal map) as it was.
C7_NoPartialResult == IsFailedInfoCall => call.post = call.pre

\* C8: every payload index read while extracting a formula that passed
\* isFormulaValid lies in the data window of the record being decoded, the
\* window is that of the PID byte before it, and the index is below the
\* payload length.
C8_FormulaValidatorSound ==
    call.op = "decodeEmissionPIDs" =>
        \A r \in call.reads :
            /\ r.window.lo <= r.idx
            /\ r.idx < r.window.hi
            /\ r.idx < Len(call.inputData)
            /\ r.window.hi <= Len(call.inputData)
            /\ LET pid == At(call.inputData, r.window.lo - 1)
                   dict == Deref(call.dictionary)
               IN /\ pid \in DOMAIN dict
                  /\ r.window.hi = r.window.lo + dict[pid].mSizeInBytes

\* a record of PID 0x03 under DictC: the 16-bit signal, the sub-byte field
\* that crosses the byte boundary and the last nibble are extracted
C8_Witness ==
    /\ call.op = "decodeEmissionPIDs"
    /\ call.dictionary = "DictC"
    /\ call.inputData = <<65, 3, 171, 5>>
    /\ call.ret
    /\ {"RPM", "Y", "N", "L"} \subseteq DOMAIN call.post.mPIDsToValues
    /\ {r.idx : r \in call.reads} = {2, 3}

\* the value of the last valid entry of signal id in entries
RECURSIVE LastValue(_, _)
LastValue(entries, id) ==
    LET e == entries[Len(entries)] IN
    IF e.id = id /\ e.valid THEN e.value
    ELSE LastValue(SubSeq(entries, 1, Len(entries) - 1), id)

\* C9: when valid formulas of one call carry the same signal_id, the value
\* stored for it is the one computed from the later formula.
C9_LastWriteWins ==
    IsRoundTrip =>
        \A id \in DOMAIN call.post.mPIDsToValues :
            (\E e \in Range(RoundTripEntries) : e.id = id /\ e.valid) =>
                call.post.mPIDsToValues[id] = LastValue(RoundTripEntries, id)

\* C10: the pointer the decoder holds is the argument of the last
\* setDecoderDictionary (null before the first), decode calls leave it
\* alone, an emission call decodes with that dictionary and with no other
\* state, and fails on a valid envelope while the pointer is null.
C10_DictionaryLifecycle ==
    /\ mDecoderDictionaryConstPtr = lastSetDictionary
    /\ call.op = "decodeEmissionPIDs" =>
          LET r == decodeEmissionPIDs(lastSetDictionary, call.sid, call.pids,
                                      call.inputData, call.pre)
          IN /\ call.dictionary = lastSetDictionary
             /\ call.ret = r.ret
             /\ call.post = r.info
             /\ (lastSetDictionary = nullptr /\ ~GateFails) =>
                   (call.ret = FALSE /\ call.post = call.pre)

\* an emission call that succeeds with DictB, which alone knows PID 0x06
C10_Witness ==
    /\ call.op = "decodeEmissionPIDs"
    /\ lastSetDictionary = "DictB"
    /\ call.pids = <<6, 5>>
    /\ call.inputData = <<65, 6, 171, 5, 171>>
    /\ call.ret
    /\ call.post.mPIDsToValues = ("A" :> 342)


\* the validator of decodeEmissionPIDs was called in the call just made
IsValidatorCall ==
    /\ call.op = "decodeEmissionPIDs"
    /\ call.validator.called

\* rest is the concatenation, over the list pids in order, of the PID byte
\* followed by as many data bytes as the dictionary gives the PID
RECURSIVE IsConcatenationOf(_, _, _)
IsConcatenationOf(dict, pids, rest) ==
    IF pids = <<>> THEN rest = <<>>
    ELSE /\ Head(pids) \in DOMAIN dict
         /\ Len(rest) >= 1 + dict[Head(pids)].mSizeInBytes
         /\ Head(rest) = Head(pids)
         /\ IsConcatenationOf(dict, Tail(pids),
                SubSeq(rest, 2 + dict[Head(pids)].mSizeInBytes, Len(rest)))

\* C11: isPIDResponseValid returns true exactly when the payload after its
\* first byte is the in-order concatenation, over the expected PIDs, of the
\* PID byte followed by the dictionary's number of data bytes for that PID
\* (so it returns false on an early end, a differing PID byte, an expected PID
\* outside the dictionary, or a walk that does not end on the payload length),
\* and every index it reads is below the payload length.
C11_ResponseValidator ==
    IsValidatorCall =>
        /\ call.validator.ret =
               IsConcatenationOf(Deref(call.dictionary), call.pids, Tail(call.inputData))
        /\ \A i \in 1 .. Len(call.validator.reads) :
               call.validator.reads[i] < Len(call.inputData)
        /\ call.validator.ret => call.validator.index = Len(call.inputData)

\* the validator accepted a payload of two records of different PIDs
C11_Witness ==
    /\ IsValidatorCall
    /\ call.validator.ret
    /\ Len(call.pids) = 2
    /\ call.pids[1] # call.pids[2]
    /\ Len(call.validator.reads) = 2

\* decodeEmissionPIDs ran its extraction walk: the validator had passed
IsValidatedWalk ==
    /\ call.op = "decodeEmissionPIDs"
    /\ call.validated

\* C12: once isPIDResponseValid has passed, the extraction walk of
\* decodeEmissionPIDs visits exactly the positions the validator visited, each
\* holding the expected PID; it never takes the dictionary-miss branch, every
\* record lies whole inside the payload, and the loop ends with the cursor on
\* the payload length.
C12_WalkInvariant ==
    IsValidatedWalk =>
        LET dict == Deref(call.dictionary)
            size == Len(call.inputData)
            walk == call.walk
        IN /\ walk.pidAt = call.validator.reads
           /\ Len(walk.pidAt) = Len(call.pids)
           /\ \A k \in 1 .. Len(walk.pidAt) :
                  /\ walk.pidAt[k] < size
                  /\ call.inputData[walk.pidAt[k] + 1] = call.pids[k]
                  /\ walk.pidAt[k] + 1 + dict[call.pids[k]].mSizeInBytes <= size
           /\ ~walk.aborted
           /\ ~walk.partial
           /\ walk.cursor = size

\* a validated walk over a PID of no data bytes that is expected twice
C12_Witness ==
    /\ IsValidatedWalk
    /\ Len(call.pids) = 2
    /\ call.pids[1] = call.pids[2]
    /\ Deref(call.dictionary)[call.pids[1]].mSizeInBytes = 0
    /\ call.walk.pidAt = <<1, 2>>
    /\ call.walk.cursor = 3

====
